---- MODULE Spec2Model ----
(***************************************************************************)
(* The middleware staging engine of packages/proxy/lib/http/index.ts:      *)
(* _runStage (the Stage Runner) and Http.handle (the Proxy Orchestrator).  *)
(*                                                                         *)
(* JavaScript runs one synchronous job at a time.  `stack` is the call     *)
(* stack of the job that is running: a step function that is executing     *)
(* ("body"), and below it the handle call (next / onError) that invoked it *)
(* and still has its _end(...) to run ("cont").  When `stack` is empty the *)
(* event loop is idle and any asynchronous event may start: a new call of  *)
(* handle, the .then callback of handle, or a handle call that a step      *)
(* makes after an asynchronous delay.                                      *)
(*                                                                         *)
(* Several specifications share the variables: each explores the part of   *)
(* the program its claims are about (repeated handle calls, exchanges in   *)
(* flight together, retried pre-requests, assignments to frames, the       *)
(* operations of the session, the derivation of retry identifiers,         *)
(* requests for source maps).  The reruns and the screenshot events of     *)
(* the runner's event manager (packages/runner-shared/src/event-manager.js)*)
(* have specifications of their own over variables of their own.           *)
(***************************************************************************)
EXTENDS Integers, Sequences, FiniteSets, TLC

\* Bounds of the model: the exchanges that are in flight together, and the
\* handle calls explored beyond the first one of each step invocation.
NumExchanges == 2
MaxExtraCalls == 1

\* Further bounds: the characters of the request identifiers explored, the
\* derivations applied in a row, the pre-requests the server announces to
\* the correlator, the assignments the steps make to the field they define
\* and to the keys their frames start with, the calls of reset, and the
\* requests for a source map.
MaxIdLen == 3
MaxChain == 3
MaxPending == 2
MaxWrites == 2
MaxAssigns == 1
MaxResets == 1
NumSourceMapRequests == 2

\* Bounds of the event manager's model: the drivers set up, the calls of
\* _reRun, the 'reporter:restarted' emissions the reporter makes on its own,
\* and the 'before:screenshot' events.
MaxSetups == 1
MaxReruns == 3
MaxRestarted == 1
MaxScreenshots == 2

Exchanges == 1..NumExchanges

\* enum HttpStages
IncomingRequest == "IncomingRequest"
IncomingResponse == "IncomingResponse"
Error == "Error"
HttpStages == {IncomingRequest, IncomingResponse, Error}

\* The registry every Http instance of the model is constructed with: three
\* request steps, one response step, one error step, in insertion order.
defaultMiddleware ==
  [s \in HttpStages |->
     CASE s = IncomingRequest -> <<"A", "B", "C">>
       [] s = IncomingResponse -> <<"R">>
       [] OTHER -> <<"E">>]

Range(q) == {q[k] : k \in 1..Len(q)}

\* The invocation of a named step of a stage in an exchange.
StepInvs ==
  UNION {{[x |-> x, type |-> s, name |-> n] : n \in Range(defaultMiddleware[s])} :
           x \in Exchanges, s \in HttpStages}

\* No promise of a step: the already resolved promise Bluebird.resolve().
NoInv == [x |-> 0, type |-> "none", name |-> "none"]

\* A key that an object does not have.
Absent == 0

\* The value undefined, where a string may stand.
undefined == "undefined"

\* The keys of a frame other than stage, incomingRes, incomingResStream,
\* error, middleware and the field a step defines (data): the handles, and
\* what handle puts into the context of an exchange.
Handles == {"next", "end", "onResponse", "onError", "skipMiddleware"}
CtxKeys ==
  {"buffers", "config", "getCurrentBrowser", "getFileServerToken",
   "netStubbingState", "deferSourceMapRewrite", "getRenderedHTMLOrigins",
   "getPreviousAUTRequestUrl", "setPreviousAUTRequestUrl", "getPreRequest"}
Keys == Handles \cup CtxKeys
READONLY_MIDDLEWARE_KEYS ==
  {"buffers", "config", "getFileServerToken", "netStubbingState",
   "next", "end", "onResponse", "onError", "skipMiddleware"}

\* The value handle gives a key of the context (what the session holds),
\* and the value of a handle in a frame (a closure of the invocation).
FromSession == 20
OwnHandle == 30

\* The value a step passes to a handle or writes to its frame: each step of
\* an exchange uses a value of its own, so that values tell the writers apart.
Code(i) ==
  CASE i.name = "A" -> 1 [] i.name = "B" -> 2 [] i.name = "C" -> 3
    [] i.name = "R" -> 4 [] OTHER -> 5

\* The stream that comes with upstream response v.
StreamOf(v) == v + 10

\* A request identifier is a string, modelled as the sequence of its pieces:
\* single characters, and the substring "-retry-" as one piece.  The
\* identifiers explored are made of these pieces only, so "-retry-" occurs
\* in one exactly where the piece does, and none holds a line terminator
\* (which the `.` of the pattern would not match).
Retry == "-retry-"
Digits == <<"0", "1", "2", "3", "4", "5", "6", "7", "8", "9">>
Pieces == {"a", "-", Retry, "0", "1", "9"}
IsDigit(c) == c \in Range(Digits)
DigitValue(c) == (CHOOSE k \in 1..Len(Digits) : Digits[k] = c) - 1

\* Number(match[2]): the value of a string of decimal digits.
RECURSIVE Number(_)
Number(ds) ==
  IF ds = <<>> THEN 0
  ELSE Len(Digits) * Number(SubSeq(ds, 1, Len(ds) - 1)) + DigitValue(ds[Len(ds)])

\* `${n}`: the decimal digits of n, without leading zeros.
RECURSIVE Stringify(_)
Stringify(n) ==
  IF n < Len(Digits) THEN <<Digits[n + 1]>>
  ELSE Stringify(n \div Len(Digits)) \o <<Digits[(n % Len(Digits)) + 1]>>

\* /^(.*)-retry-([\d]+)$/.exec(requestId): <<match[1], match[2]>>, or <<>>
\* for null.  The greedy (.*) takes the last "-retry-" that only digits,
\* and at least one, follow up to the end.
exec(requestId) ==
  LET P == {p \in 1..(Len(requestId) - 1) :
              /\ requestId[p] = Retry
              /\ \A q \in (p + 1)..Len(requestId) : IsDigit(requestId[q])}
  IN IF P = {} THEN <<>>
     ELSE LET p == CHOOSE q \in P : \A r \in P : r <= q
          IN <<SubSeq(requestId, 1, p - 1),
               SubSeq(requestId, p + 1, Len(requestId))>>

\* getUniqueRequestId(requestId)
getUniqueRequestIdNoIncrement(requestId) == requestId \o <<Retry, "1">>
getUniqueRequestId(requestId) ==
  LET match == exec(requestId)
  IN IF match # <<>>
     THEN match[1] \o <<Retry>> \o Stringify(Number(match[2]) + 1)
     ELSE requestId \o <<Retry, "1">>

\* A request that carries no browserPreRequest, and the pre-requests the
\* requests of the model carry: one with a plain identifier, one whose
\* identifier is a retry identifier already.
NoPreRequest == [requestId |-> <<>>, method |-> "none", url |-> "none"]
PreRequests ==
  {[requestId |-> id, method |-> "GET", url |-> "/a"] :
     id \in {<<"a">>, <<"a", Retry, "9">>}}

\* The requests for a source map, the identifiers they ask for (one request
\* in two asks for the second), the source
\* maps the cache may hold, and what deferredSourceMapCache.resolve may
\* settle with: a source map, nothing (null), or a rejection.
SourceMapRequests == 1..NumSourceMapRequests
ParamsId(q) == IF q % 2 = 1 THEN "id1" ELSE "id2"
SourceMapsOf(id) == {"map of " \o id}
NotSettled == [k |-> "pending", v |-> undefined]
Fulfilled(v) == [k |-> "fulfilled", v |-> v]
RejectedWith(e) == [k |-> "rejected", v |-> e]
null == "null"
noSourcemapFound == "no sourcemap found"
resolveFailed == "resolve failed"

\* The response of a source-map request: its status code (200 until set)
\* and the bodies sent on it.
NoResponse == [statusCode |-> 200, sent |-> <<>>]
status(res, code) == [res EXCEPT !.statusCode = code]
json(res, body) == [res EXCEPT !.sent = Append(@, body)]
MapBody(sm) == [sm |-> sm, err |-> undefined]
ErrBody(err) == [sm |-> undefined, err |-> err]

\* The driver of the event manager: let Cypress (undefined: instance 0).
NoDriver == [instance |-> 0, listeners |-> FALSE, stopped |-> FALSE]

\* One emission on a bus, or one call of a callback; of is the rerun or the
\* screenshot event it belongs to (0: none).
Emitted(bus, event, of) == [bus |-> bus, event |-> event, of |-> of]

VARIABLES
  stacks,     \* the HttpMiddlewareStacks objects: stacks[0] is this.middleware,
              \* stacks[p] the object ctx.middleware = p refers to
  ctx,        \* ctx[x]: the context object handle builds for exchange x
  hpc,        \* hpc[x]: how far handle(x) is
  reqP,       \* reqP[x]: the promise of _runStage(IncomingRequest, ...)
  resP,       \* resP[x]: the promise of _runStage(IncomingResponse, ...)
  inv,        \* inv[i]: the closure of invocation i (ended, fullCtx, promise),
              \* for the steps that have been called, with the history of
              \* its handle calls and the number of its skipMiddleware calls
  stack,      \* the call stack of the running job
  invoked,    \* history: invoked[i], how often middleware.call ran for i
  order,      \* history: order[x][s], the names invoked for stage s, in order
  skipped,    \* history: skipped[x][s], names skipMiddleware took out unrun
  hook,       \* history: hook[x], calls of the onError hook of handle(x)
  errRun,     \* history: errRun[i], the promises of the Error runs i started
  seenAtThen, \* history: seenAtThen[x], the stages whose steps had called
              \* onResponse when the .then callback of handle(x) ran
  extra,      \* history: the handle calls made beyond the first one of each
              \* invocation
  writes,     \* history: the assignments steps have made to their frames
  req,        \* req[x]: the request of exchange x (its browserPreRequest)
  preRequests,            \* this.preRequests: the pre-requests added as pending
  buffers,                \* this.buffers: the buffers stored
  previousAUTRequestUrl,  \* this.previousAUTRequestUrl
  renderedHTMLOrigins,    \* this.renderedHTMLOrigins
  resets,     \* history: the calls of reset
  rid,        \* a request identifier, and
  chain,      \* history: the identifiers derived from it, one after another
  sourceMapRequests, \* sourceMapRequests[q]: how far handleSourceMapRequest
              \* is for request q, and the response res it writes
  Cypress,    \* event manager: the driver instance (none before setup), and
              \* whether it has listeners and has been stopped
  reporterBus, \* the listeners registered once for 'reporter:restarted', and
              \* the callbacks the reporter was given with 'test:set:state'
  emitted,    \* history: what was emitted on the buses and called back
  reruns,     \* reruns[k]: how far the k-th call of _reRun is
  screenshots \* screenshots[s]: the s-th 'before:screenshot' event handled

vars == <<stacks, ctx, hpc, reqP, resP, inv, stack, invoked, order, skipped,
          hook, errRun, seenAtThen, extra, writes, req, preRequests, buffers,
          previousAUTRequestUrl, renderedHTMLOrigins, resets, rid, chain,
          sourceMapRequests, Cypress, reporterBus, emitted, reruns,
          screenshots>>

Pending == [k |-> "pending", t |-> NoInv]
Resolved == [k |-> "resolved", t |-> NoInv]
Rejected == [k |-> "rejected", t |-> NoInv]
Following(p) == [k |-> "follow", t |-> p]

NoProps == [k \in Keys |-> Absent]

NoFrame ==
  [stage |-> "none", incomingRes |-> Absent, incomingResStream |-> Absent,
   error |-> Absent, data |-> Absent, props |-> NoProps]

NoCtx ==
  [stage |-> "none", incomingRes |-> Absent, incomingResStream |-> Absent,
   error |-> Absent, data |-> Absent, props |-> NoProps, middleware |-> 0]

NoClosure ==
  [st |-> "none", ended |-> FALSE, hist |-> <<>>, skips |-> 0,
   frame |-> NoFrame,
   res |-> Pending]

EmptyStacks == [s \in HttpStages |-> <<>>]

\* The closure of step i, the calls of its handles so far, and the history
\* kept for it; a step that has not been called has none.
Closure(i) == IF i \in DOMAIN inv THEN inv[i] ELSE NoClosure
Hist(i) == Closure(i).hist
Invoked(i) == IF i \in DOMAIN invoked THEN invoked[i] ELSE 0
ErrRuns(i) == IF i \in DOMAIN errRun THEN errRun[i] ELSE <<>>

\* The state of promise p: a promise resolved with another promise follows it.
RECURSIVE PState(_)
PState(p) ==
  IF p = NoInv THEN "resolved"
  ELSE IF inv[p].res.k = "follow" THEN PState(inv[p].res.t)
  ELSE inv[p].res.k

\* The state of the promise handle(x) returned.
HandleState(x) ==
  CASE hpc[x] = "idle" -> "none"
    [] hpc[x] = "request" ->
         IF PState(reqP[x]) = "rejected" THEN "rejected" ELSE "pending"
    [] hpc[x] = "response" -> PState(resP[x])
    [] OTHER -> "resolved"

\* The variables the runner's functions change, as one record, so that the
\* functions compose in the order the code calls them.  ret is the value the
\* last call returned.
Cur ==
  [stacks |-> stacks, ctx |-> ctx, inv |-> inv, stack |-> stack,
   invoked |-> invoked, order |-> order, skipped |-> skipped, hook |-> hook,
   errRun |-> errRun, extra |-> extra, writes |-> writes,
   preRequests |-> preRequests, ret |-> NoInv]

Commit(S) ==
  /\ stacks' = S.stacks
  /\ ctx' = S.ctx
  /\ inv' = S.inv
  /\ stack' = S.stack
  /\ invoked' = S.invoked
  /\ order' = S.order
  /\ skipped' = S.skipped
  /\ hook' = S.hook
  /\ errRun' = S.errRun
  /\ extra' = S.extra
  /\ writes' = S.writes
  /\ preRequests' = S.preRequests

\* _.omit(middlewares, name)
Omit(middlewares, name) == SelectSeq(middlewares, LAMBDA n : n # name)

\* { next, end, onResponse, onError, skipMiddleware, ...ctx }: the handles
\* and the snapshot of the context a frame starts from; a key of the
\* context replaces a handle of the same name.  The frame's middleware is
\* the reference ctx.middleware itself, so it holds no copy of the
\* remaining steps.
Spread(c) ==
  [stage |-> c.stage, incomingRes |-> c.incomingRes,
   incomingResStream |-> c.incomingResStream, error |-> c.error,
   data |-> c.data,
   props |-> [k \in Keys |->
                IF k \in Handles /\ c.props[k] = Absent THEN OwnHandle
                ELSE c.props[k]]]

\* copyChangedCtx: every key of fullCtx that is not read-only is written to
\* ctx; a key the frame does not have is left alone.
copyChangedCtx(S, i) ==
  LET f == S.inv[i].frame
      Val(fv, cv) == IF fv # Absent THEN fv ELSE cv
  IN [S EXCEPT !.ctx[i.x] =
        [@ EXCEPT !.stage = f.stage,
                  !.incomingRes = Val(f.incomingRes, @),
                  !.incomingResStream = Val(f.incomingResStream, @),
                  !.error = Val(f.error, @),
                  !.data = Val(f.data, @),
                  !.props = [k \in Keys |->
                               IF k \in READONLY_MIDDLEWARE_KEYS THEN @[k]
                               ELSE Val(f.props[k], @[k])]]]

\* _end(retval)
End_(S, i, retval) ==
  IF S.inv[i].ended THEN S
  ELSE LET S1 == [S EXCEPT !.inv[i].ended = TRUE]
           S2 == copyChangedCtx(S1, i)
       IN [S2 EXCEPT !.inv[i].res =
             IF retval = NoInv THEN Resolved ELSE Following(retval)]

\* ctx.middleware[type] = _.omit(middlewares, middlewareName)
PopNoRemoval(middlewares, name) == middlewares
PopRequeues(middlewares, name) == Tail(middlewares) \o <<name>>
Pop(middlewares, name) == Omit(middlewares, name)

\* runMiddlewareStack(): takes the first remaining step of the stage out of
\* the exchange's registry and calls it; ret is the promise it returns.
runMiddlewareStack(S, x, type) ==
  LET p == S.ctx[x].middleware
      middlewares == S.stacks[p][type]
  IN IF middlewares = <<>> THEN [S EXCEPT !.ret = NoInv]
     ELSE LET middlewareName == Head(middlewares)
              j == [x |-> x, type |-> type, name |-> middlewareName]
          IN [S EXCEPT
                !.stacks[p][type] = Pop(middlewares, middlewareName),
                !.inv = (j :> [st |-> "running", ended |-> FALSE,
                               hist |-> <<>>, skips |-> 0,
                               frame |-> Spread(S.ctx[x]),
                               res |-> Pending]) @@ @,
                !.stack = Append(@, [k |-> "body", i |-> j, p |-> NoInv]),
                !.invoked = (j :> (IF j \in DOMAIN @ THEN @[j] + 1 ELSE 1)) @@ @,
                !.order[x][type] = Append(@, middlewareName),
                !.ret = j]

\* _runStage(type, ctx, onError)
RunStage(S, type, x) ==
  runMiddlewareStack([S EXCEPT !.ctx[x].stage = type], x, type)

\* _end(<the promise a nested run returned>): when the nested run called a
\* step, that step's function runs first and _end runs once it has returned.
EndAfter(S, i) ==
  IF S.ret = NoInv THEN End_(S, i, NoInv)
  ELSE [S EXCEPT !.stack =
          SubSeq(@, 1, Len(@) - 1)
            \o <<[k |-> "cont", i |-> i, p |-> S.ret]>> \o <<@[Len(@)]>>]

\* fullCtx.next
nextNoMerge(S, i) == EndAfter(runMiddlewareStack(S, i.x, i.type), i)
next(S, i) == EndAfter(runMiddlewareStack(copyChangedCtx(S, i), i.x, i.type), i)

\* fullCtx.end
end(S, i) == End_(S, i, NoInv)

\* fullCtx.onResponse
onResponseNotRecorded(S, i) == End_(S, i, NoInv)
onResponse(S, i) ==
  End_([S EXCEPT !.ctx[i.x].incomingRes = Code(i),
                 !.ctx[i.x].incomingResStream = StreamOf(Code(i))], i, NoInv)

\* PreRequests.addPending(browserPreRequest): the pre-request is registered
\* as pending, next to those that are.
addPending(pending, browserPreRequest) == Append(pending, browserPreRequest)

\* Http.addPendingBrowserPreRequest(browserPreRequest)
addPendingBrowserPreRequest(S, browserPreRequest) ==
  [S EXCEPT !.preRequests = addPending(@, browserPreRequest)]

\* The onError hook Http.handle passes to _runStage.
handleOnErrorSameId(S, x) ==
  LET S1 == [S EXCEPT !.hook[x] = @ + 1]
  IN IF req[x].browserPreRequest # NoPreRequest
     THEN addPendingBrowserPreRequest(S1, req[x].browserPreRequest)
     ELSE S1
handleOnError(S, x) ==
  LET S1 == [S EXCEPT !.hook[x] = @ + 1]
  IN IF req[x].browserPreRequest # NoPreRequest
     THEN LET preRequest ==
                [req[x].browserPreRequest EXCEPT
                   !.requestId = getUniqueRequestId(@)]
          IN addPendingBrowserPreRequest(S1, preRequest)
     ELSE S1

\* ctx.error = error; onError(error); _end(_runStage(HttpStages.Error, ...))
enterErrorStageFresh(S, i) ==
  LET S1 == [S EXCEPT !.ctx[i.x].error = Code(i),
                      !.stacks[S.ctx[i.x].middleware][Error] =
                         defaultMiddleware[Error]]
      S2 == handleOnError(S1, i.x)
      S3 == RunStage(S2, Error, i.x)
      S4 == [S3 EXCEPT !.errRun =
               (i :> Append(IF i \in DOMAIN @ THEN @[i] ELSE <<>>, S3.ret)) @@ @]
  IN EndAfter(S4, i)
enterErrorStage(S, i) ==
  LET S1 == [S EXCEPT !.ctx[i.x].error = Code(i)]
      S2 == handleOnError(S1, i.x)
      S3 == RunStage(S2, Error, i.x)
      S4 == [S3 EXCEPT !.errRun =
               (i :> Append(IF i \in DOMAIN @ THEN @[i] ELSE <<>>, S3.ret)) @@ @]
  IN EndAfter(S4, i)

\* fullCtx.onError
onErrorAnyStage(S, i) == enterErrorStage(S, i)
onError(S, i) == IF i.type = Error THEN S ELSE enterErrorStage(S, i)

\* history: name is taken out of the stage's remaining steps without running.
NoteSkip(S, i, name) ==
  IF name \in Range(S.stacks[S.ctx[i.x].middleware][i.type])
  THEN [S EXCEPT !.skipped[i.x][i.type] = @ \cup {name},
                 !.inv[i].skips = @ + 1]
  ELSE S

\* fullCtx.skipMiddleware
skipMiddlewareNotAssigned(S, i, name) == NoteSkip(S, i, name)
skipMiddleware(S, i, name) ==
  [NoteSkip(S, i, name) EXCEPT
     !.stacks[S.ctx[i.x].middleware][i.type] = Omit(@, name)]

\* _.cloneDeep(this.middleware): a new object.
sameObject(x) == 0
cloneDeep(x) == x

\* new Http(opts)
Constructed ==
  /\ stacks = [p \in 0..NumExchanges |->
                 IF p = 0 THEN defaultMiddleware ELSE EmptyStacks]
  /\ ctx = [x \in Exchanges |-> NoCtx]
  /\ hpc = [x \in Exchanges |-> "idle"]
  /\ reqP = [x \in Exchanges |-> NoInv]
  /\ resP = [x \in Exchanges |-> NoInv]
  /\ inv = <<>>
  /\ stack = <<>>
  /\ invoked = <<>>
  /\ order = [x \in Exchanges |-> [s \in HttpStages |-> <<>>]]
  /\ skipped = [x \in Exchanges |-> [s \in HttpStages |-> {}]]
  /\ hook = [x \in Exchanges |-> 0]
  /\ errRun = <<>>
  /\ seenAtThen = [x \in Exchanges |-> {}]
  /\ extra = 0
  /\ writes = 0
  /\ req = [x \in Exchanges |-> [browserPreRequest |-> NoPreRequest]]
  /\ preRequests = <<>>
  /\ buffers = {}
  /\ previousAUTRequestUrl = undefined
  /\ renderedHTMLOrigins = {}
  /\ resets = 0

\* No request for a source map has been made.
NoSourceMapRequests ==
  sourceMapRequests =
    [q \in SourceMapRequests |->
       [pc |-> "idle", id |-> undefined, settled |-> NotSettled,
        res |-> NoResponse]]

\* The event manager's module is loaded: the buses have no listeners and
\* there is no driver (let Cypress).
Loaded ==
  /\ Cypress = NoDriver
  /\ reporterBus = [once |-> {}, callbacks |-> {}]
  /\ emitted = <<>>
  /\ reruns = <<>>
  /\ screenshots = <<>>

Init ==
  /\ Constructed
  /\ rid = <<>>
  /\ chain = <<>>
  /\ NoSourceMapRequests
  /\ Loaded

\* What the steps and the orchestrator leave alone.
Session == <<buffers, previousAUTRequestUrl, renderedHTMLOrigins, resets>>
Derivation == <<rid, chain>>
SourceMaps == <<sourceMapRequests>>
Runner == <<Cypress, reporterBus, emitted, reruns, screenshots>>

\* Http.handle(req, res), up to the return of _runStage(IncomingRequest);
\* browserPreRequest is the pre-request the request carries.
Handle(x, browserPreRequest) ==
  /\ stack = <<>>
  /\ hpc[x] = "idle"
  /\ \A y \in Exchanges : y < x => hpc[y] # "idle"
  /\ req' = [req EXCEPT ![x] = [browserPreRequest |-> browserPreRequest]]
  /\ LET p == cloneDeep(x)
         S0 == [Cur EXCEPT !.stacks[p] = Cur.stacks[0],
                           !.ctx[x] =
                             [NoCtx EXCEPT
                                !.middleware = p,
                                !.props = [k \in Keys |->
                                             IF k \in CtxKeys THEN FromSession
                                             ELSE Absent]]]
         S1 == RunStage(S0, IncomingRequest, x)
     IN /\ Commit(S1)
        /\ reqP' = [reqP EXCEPT ![x] = S1.ret]
  /\ hpc' = [hpc EXCEPT ![x] = "request"]
  /\ UNCHANGED <<resP, seenAtThen, Session, Derivation, SourceMaps, Runner>>

\* The stages of exchange x whose steps have called onResponse.
Delivered(x) ==
  {i.type : i \in {j \in DOMAIN inv :
                      j.x = x /\ "onResponse" \in Range(inv[j].hist)}}

\* The .then callback of Http.handle.
Then(x) ==
  /\ stack = <<>>
  /\ hpc[x] = "request"
  /\ PState(reqP[x]) = "resolved"
  /\ seenAtThen' = [seenAtThen EXCEPT ![x] = Delivered(x)]
  /\ IF ctx[x].incomingRes # Absent
     THEN LET S1 == RunStage(Cur, IncomingResponse, x)
          IN /\ Commit(S1)
             /\ resP' = [resP EXCEPT ![x] = S1.ret]
             /\ hpc' = [hpc EXCEPT ![x] = "response"]
     ELSE /\ hpc' = [hpc EXCEPT ![x] = "unfulfilled"]
          /\ UNCHANGED <<stacks, ctx, inv, stack, invoked, order, skipped,
                         hook, errRun, extra, writes, preRequests, resP>>
  /\ UNCHANGED <<reqP, req, Session, Derivation, SourceMaps, Runner>>

\* Step i is the code that is running (its function, called by
\* middleware.call and not yet returned), or the event loop is idle and i,
\* whose function has returned, acts after an asynchronous delay.
Running(i) ==
  /\ stack # <<>>
  /\ stack[Len(stack)].k = "body"
  /\ stack[Len(stack)].i = i
CanAct(i) ==
  \/ Running(i) /\ inv[i].st = "running"
  \/ stack = <<>> /\ Closure(i).st = "live"

\* An invocation's first handle call is always explored, and b further calls.
MayCall(i, b) == Hist(i) = <<>> \/ extra < b
CanCall(i, b) == CanAct(i) /\ MayCall(i, b)

\* history: step i makes the handle call `what`.
Called(S, i, what) ==
  [S EXCEPT !.inv[i].hist = Append(@, what),
            !.extra = IF S.inv[i].hist = <<>> THEN @ ELSE @ + 1]

Orchestrator == <<hpc, reqP, resP, seenAtThen, req>>

\* Step i calls this.next().
Next_(i, b) ==
  /\ CanCall(i, b)
  /\ Commit(next(Called(Cur, i, "next"), i))
  /\ UNCHANGED <<Orchestrator, Session, Derivation, SourceMaps, Runner>>

\* Step i calls this.end().
End(i, b) ==
  /\ CanCall(i, b)
  /\ Commit(end(Called(Cur, i, "end"), i))
  /\ UNCHANGED <<Orchestrator, Session, Derivation, SourceMaps, Runner>>

\* Step i calls this.onResponse(incomingRes, resStream).
OnResponse(i, b) ==
  /\ CanCall(i, b)
  /\ Commit(onResponse(Called(Cur, i, "onResponse"), i))
  /\ UNCHANGED <<Orchestrator, Session, Derivation, SourceMaps, Runner>>

\* Step i calls this.onError(error).
OnError(i, b) ==
  /\ CanCall(i, b)
  /\ Commit(onError(Called(Cur, i, "onError"), i))
  /\ UNCHANGED <<Orchestrator, Session, Derivation, SourceMaps, Runner>>

\* try { middleware.call(fullCtx) } catch (err) { fullCtx.onError(err) }:
\* the function of step i throws.  Without the catch the exception would
\* leave the executor of new Bluebird(...), which rejects the promise.
Uncaught(S, i) == [S EXCEPT !.inv[i].res = Rejected]
CatchSwallows(S, i) == S
Catch(S, i) == onError(S, i)

Throw(i, b) ==
  /\ Running(i)
  /\ inv[i].st = "running"
  /\ MayCall(i, b)
  /\ Commit(Catch([Called(Cur, i, "throw") EXCEPT !.inv[i].st = "thrown"], i))
  /\ UNCHANGED <<Orchestrator, Session, Derivation, SourceMaps, Runner>>

\* The function of step i returns; the handle call that had invoked it goes
\* on with its _end.
Return(i) ==
  /\ Running(i)
  /\ LET S1 == [Cur EXCEPT !.stack = SubSeq(@, 1, Len(@) - 1),
                           !.inv[i].st = "live"]
         n == Len(S1.stack)
     IN IF n > 0 /\ S1.stack[n].k = "cont"
        THEN Commit(End_([S1 EXCEPT !.stack = SubSeq(@, 1, n - 1)],
                         S1.stack[n].i, S1.stack[n].p))
        ELSE Commit(S1)
  /\ UNCHANGED <<Orchestrator, Session, Derivation, SourceMaps, Runner>>

\* Step i calls this.skipMiddleware(name) for a step that remains.
SkipMiddleware(i, name) ==
  /\ CanAct(i)
  /\ name \in Range(stacks[ctx[i.x].middleware][i.type])
  /\ Commit(skipMiddleware(Cur, i, name))
  /\ UNCHANGED <<Orchestrator, Session, Derivation, SourceMaps, Runner>>

InvsOf(X) == {i \in StepInvs : i.x \in X}
NamesOf(i) == Range(defaultMiddleware[i.type])

\* One exchange, whose steps may call their handles more than once.
Next ==
  \/ Handle(1, NoPreRequest)
  \/ Then(1)
  \/ \E i \in InvsOf({1}) : Next_(i, MaxExtraCalls)
  \/ \E i \in InvsOf({1}) : End(i, MaxExtraCalls)
  \/ \E i \in InvsOf({1}) : OnResponse(i, MaxExtraCalls)
  \/ \E i \in InvsOf({1}) : OnError(i, MaxExtraCalls)
  \/ \E i \in InvsOf({1}) : Throw(i, MaxExtraCalls)
  \/ \E i \in InvsOf({1}) : Return(i)
  \/ \E i \in InvsOf({1}) : \E name \in NamesOf(i) : SkipMiddleware(i, name)

Spec == Init /\ [][Next]_vars

\* Several exchanges in flight on one Http instance, each step calling one
\* handle, at once or after a delay.
NextShared ==
  \/ \E x \in Exchanges : Handle(x, NoPreRequest)
  \/ \E x \in Exchanges : Then(x)
  \/ \E i \in StepInvs : Next_(i, 0)
  \/ \E i \in StepInvs : End(i, 0)
  \/ \E i \in StepInvs : OnResponse(i, 0)
  \/ \E i \in StepInvs : OnError(i, 0)
  \/ \E i \in StepInvs : Return(i)
  \/ \E i \in StepInvs : \E name \in NamesOf(i) : SkipMiddleware(i, name)

SpecShared == Init /\ [][NextShared]_vars

\* Http.addPendingBrowserPreRequest(browserPreRequest), called by the server
\* when the browser announces a request.
AddPendingBrowserPreRequest(browserPreRequest) ==
  /\ stack = <<>>
  /\ Len(preRequests) < MaxPending
  /\ Commit(addPendingBrowserPreRequest(Cur, browserPreRequest))
  /\ UNCHANGED <<Orchestrator, Session, Derivation, SourceMaps, Runner>>

\* One exchange whose request may carry a pre-request, on a session whose
\* correlator is given pending pre-requests; each step calls one handle or
\* throws.
NextRetry ==
  \/ \E p \in PreRequests : AddPendingBrowserPreRequest(p)
  \/ \E p \in PreRequests \cup {NoPreRequest} : Handle(1, p)
  \/ Then(1)
  \/ \E i \in InvsOf({1}) : Next_(i, 0)
  \/ \E i \in InvsOf({1}) : End(i, 0)
  \/ \E i \in InvsOf({1}) : OnResponse(i, 0)
  \/ \E i \in InvsOf({1}) : OnError(i, 0)
  \/ \E i \in InvsOf({1}) : Throw(i, 0)
  \/ \E i \in InvsOf({1}) : Return(i)

SpecRetry == Init /\ [][NextRetry]_vars

\* Step i, before it calls a handle, assigns a value of its own to the
\* field of its frame that steps define (this.data = ...).
Write(i) ==
  /\ CanAct(i)
  /\ Hist(i) = <<>>
  /\ writes < MaxWrites
  /\ inv[i].frame.data # Code(i)
  /\ Commit([Cur EXCEPT !.inv[i].frame.data = Code(i), !.writes = @ + 1])
  /\ UNCHANGED <<Orchestrator, Session, Derivation, SourceMaps, Runner>>

\* Step i, before it calls a handle, assigns a value of its own to key of
\* its frame (this[key] = ...).
Assign(i, key) ==
  /\ CanAct(i)
  /\ Hist(i) = <<>>
  /\ writes < MaxAssigns
  /\ inv[i].frame.props[key] # Code(i)
  /\ Commit([Cur EXCEPT !.inv[i].frame.props[key] = Code(i),
                        !.writes = @ + 1])
  /\ UNCHANGED <<Orchestrator, Session, Derivation, SourceMaps, Runner>>

\* One exchange whose steps assign to the field they define before they
\* call one handle.
NextData ==
  \/ Handle(1, NoPreRequest)
  \/ Then(1)
  \/ \E i \in InvsOf({1}) : Write(i)
  \/ \E i \in InvsOf({1}) : Next_(i, 0)
  \/ \E i \in InvsOf({1}) : End(i, 0)
  \/ \E i \in InvsOf({1}) : OnResponse(i, 0)
  \/ \E i \in InvsOf({1}) : OnError(i, 0)
  \/ \E i \in InvsOf({1}) : Return(i)

SpecData == Init /\ [][NextData]_vars

\* One exchange whose steps assign to the keys their frames start with
\* before they call one handle.
NextKeys ==
  \/ Handle(1, NoPreRequest)
  \/ Then(1)
  \/ \E i \in InvsOf({1}) : \E key \in Keys : Assign(i, key)
  \/ \E i \in InvsOf({1}) : Next_(i, 0)
  \/ \E i \in InvsOf({1}) : End(i, 0)
  \/ \E i \in InvsOf({1}) : OnResponse(i, 0)
  \/ \E i \in InvsOf({1}) : OnError(i, 0)
  \/ \E i \in InvsOf({1}) : Return(i)

SpecKeys == Init /\ [][NextKeys]_vars

\* What a session holds besides its registry: the state the operations of
\* Http outside handle work on.
CurSession ==
  [buffers |-> buffers, previousAUTRequestUrl |-> previousAUTRequestUrl,
   renderedHTMLOrigins |-> renderedHTMLOrigins, preRequests |-> preRequests]

CommitSession(T) ==
  /\ buffers' = T.buffers
  /\ previousAUTRequestUrl' = T.previousAUTRequestUrl
  /\ renderedHTMLOrigins' = T.renderedHTMLOrigins
  /\ preRequests' = T.preRequests

\* HttpBuffers.reset() and HttpBuffers.set(buffer)
buffersReset(stored) == {}
buffersSet(stored, buffer) == stored \cup {buffer}

\* Http.setPreviousAUTRequestUrl(url)
setPreviousAUTRequestUrl(T, url) == [T EXCEPT !.previousAUTRequestUrl = url]

\* Http.reset()
resetEverything(T) ==
  [buffers |-> {}, previousAUTRequestUrl |-> undefined,
   renderedHTMLOrigins |-> {}, preRequests |-> <<>>]
reset(T) ==
  setPreviousAUTRequestUrl([T EXCEPT !.buffers = buffersReset(@)], undefined)

\* Http.setBuffer(buffer)
setBuffer(T, buffer) == [T EXCEPT !.buffers = buffersSet(@, buffer)]

\* The buffers, URLs and origins of the model.
Buffers == {"b1", "b2"}
Urls == {"/a"}
Origins == {"http://a"}

\* What the operations of the session leave alone: the exchanges.
InExchanges ==
  <<stacks, ctx, inv, stack, invoked, order, skipped, hook, errRun, extra,
    writes, Orchestrator>>

Reset ==
  /\ stack = <<>>
  /\ resets < MaxResets
  /\ resets' = resets + 1
  /\ CommitSession(reset(CurSession))
  /\ UNCHANGED <<InExchanges, Derivation, SourceMaps, Runner>>

SetBuffer(buffer) ==
  /\ stack = <<>>
  /\ buffer \notin buffers
  /\ CommitSession(setBuffer(CurSession, buffer))
  /\ UNCHANGED <<InExchanges, resets, Derivation, SourceMaps, Runner>>

\* A step calls this.setPreviousAUTRequestUrl(url).
SetPreviousAUTRequestUrl(url) ==
  /\ stack = <<>>
  /\ previousAUTRequestUrl # url
  /\ CommitSession(setPreviousAUTRequestUrl(CurSession, url))
  /\ UNCHANGED <<InExchanges, resets, Derivation, SourceMaps, Runner>>

\* A step records an origin in the object this.getRenderedHTMLOrigins()
\* returns.
RenderOrigin(origin) ==
  /\ stack = <<>>
  /\ origin \notin renderedHTMLOrigins
  /\ renderedHTMLOrigins' = renderedHTMLOrigins \cup {origin}
  /\ UNCHANGED <<InExchanges, buffers, previousAUTRequestUrl, preRequests,
                 resets, Derivation, SourceMaps, Runner>>

\* A session in use: an exchange in flight, pre-requests pending, buffers
\* stored, a previous URL and rendered origins recorded, and reset called.
NextSession ==
  \/ \E p \in PreRequests : AddPendingBrowserPreRequest(p)
  \/ \E buffer \in Buffers : SetBuffer(buffer)
  \/ \E url \in Urls : SetPreviousAUTRequestUrl(url)
  \/ \E origin \in Origins : RenderOrigin(origin)
  \/ Reset
  \/ Handle(1, NoPreRequest)
  \/ \E i \in InvsOf({1}) : Next_(i, 0)
  \/ \E i \in InvsOf({1}) : End(i, 0)
  \/ \E i \in InvsOf({1}) : Return(i)

SpecSession == Init /\ [][NextSession]_vars

\* The catch of handleSourceMapRequest: res.status(500).json({ err }).
catchSourceMap(res, err) == json(status(res, 500), ErrBody(err))

\* Http.handleSourceMapRequest(req, res) from the await on: the try block
\* resumed with what deferredSourceMapCache.resolve settled with.
handleSourceMapRequestNoCheck(res, settled) ==
  IF settled.k = "rejected" THEN catchSourceMap(res, settled.v)
  ELSE json(res, MapBody(settled.v))
handleSourceMapRequest(res, settled) ==
  IF settled.k = "rejected" THEN catchSourceMap(res, settled.v)
  ELSE IF settled.v = null THEN catchSourceMap(res, noSourcemapFound)
  ELSE json(res, MapBody(settled.v))

\* deferredSourceMapCache.resolve(id, headers) settles: with the source map
\* of id, with nothing, or with a rejection.
resolve(id) ==
  {Fulfilled(sm) : sm \in SourceMapsOf(id)}
    \cup {Fulfilled(null), RejectedWith(resolveFailed)}

\* handleSourceMapRequest is called for request q: it calls resolve and
\* awaits the result.
HandleSourceMapRequest(q, id) ==
  /\ stack = <<>>
  /\ sourceMapRequests[q].pc = "idle"
  /\ sourceMapRequests' =
       [sourceMapRequests EXCEPT ![q].pc = "awaiting", ![q].id = id]
  /\ UNCHANGED <<InExchanges, preRequests, Session, Derivation, Runner>>

Resolve(q) ==
  /\ stack = <<>>
  /\ sourceMapRequests[q].pc = "awaiting"
  /\ sourceMapRequests[q].settled = NotSettled
  /\ \E outcome \in resolve(sourceMapRequests[q].id) :
       sourceMapRequests' = [sourceMapRequests EXCEPT ![q].settled = outcome]
  /\ UNCHANGED <<InExchanges, preRequests, Session, Derivation, Runner>>

\* The job that resumes handleSourceMapRequest after the await.
ResumeSourceMapRequest(q) ==
  /\ stack = <<>>
  /\ sourceMapRequests[q].pc = "awaiting"
  /\ sourceMapRequests[q].settled # NotSettled
  /\ sourceMapRequests' =
       [sourceMapRequests EXCEPT
          ![q].pc = "done",
          ![q].res = handleSourceMapRequest(@, sourceMapRequests[q].settled)]
  /\ UNCHANGED <<InExchanges, preRequests, Session, Derivation, Runner>>

\* Requests for source maps while an exchange is handled and pre-requests
\* are added as pending.
NextSourceMap ==
  \/ \E p \in PreRequests : AddPendingBrowserPreRequest(p)
  \/ Handle(1, NoPreRequest)
  \/ Then(1)
  \/ \E i \in InvsOf({1}) : Next_(i, 0)
  \/ \E i \in InvsOf({1}) : OnResponse(i, 0)
  \/ \E i \in InvsOf({1}) : Return(i)
  \/ \E q \in SourceMapRequests : HandleSourceMapRequest(q, ParamsId(q))
  \/ \E q \in SourceMapRequests : Resolve(q)
  \/ \E q \in SourceMapRequests : ResumeSourceMapRequest(q)

SpecSourceMap == Init /\ [][NextSourceMap]_vars

(***************************************************************************)
(* The event manager of the runner.  Its functions are applied to the      *)
(* record of the variables they change, in the order the code calls them.  *)
(***************************************************************************)
CurRunner ==
  [Cypress |-> Cypress, reporterBus |-> reporterBus, emitted |-> emitted,
   reruns |-> reruns, screenshots |-> screenshots]

CommitRunner(R) ==
  /\ Cypress' = R.Cypress
  /\ reporterBus' = R.reporterBus
  /\ emitted' = R.emitted
  /\ reruns' = R.reruns
  /\ screenshots' = R.screenshots

\* bus.emit(event, ...), as the history records it.
emit(R, bus, event, of) ==
  [R EXCEPT !.emitted = Append(@, Emitted(bus, event, of))]

\* The reporter emits 'reporter:restarted' on the reporter bus: each
\* listener registered with once is removed and called, and resolves the
\* promise of its _restart.
reporterRestarted(R) ==
  LET R1 == emit(R, "reporterBus", "reporter:restarted", 0)
  IN [R1 EXCEPT
        !.reporterBus.once = {},
        !.reruns = [k \in DOMAIN @ |->
                      IF k \in R.reporterBus.once /\ @[k] = "pending"
                      THEN "resolved" ELSE @[k]]]

\* _restart(), for the k-th rerun; ack: the reporter's listener for
\* 'reporter:restart:test:run' emits 'reporter:restarted' before it returns.
restartEmitsFirst(R, k, ack) ==
  LET R1 == emit(R, "reporterBus", "reporter:restart:test:run", k)
      R2 == IF ack THEN reporterRestarted(R1) ELSE R1
  IN [R2 EXCEPT !.reporterBus.once = @ \cup {k}]
restart_(R, k, ack) ==
  LET R1 == [R EXCEPT !.reporterBus.once = @ \cup {k}]
      R2 == emit(R1, "reporterBus", "reporter:restart:test:run", k)
  IN IF ack THEN reporterRestarted(R2) ELSE R2

\* _reRun(state), up to the return of the promise of _restart().then(...)
reRun(R, ack) ==
  LET k == Len(R.reruns) + 1
  IN IF R.Cypress.instance = 0
     THEN [R EXCEPT !.reruns = Append(@, "returned")]
     ELSE restart_([R EXCEPT !.reruns = Append(@, "pending"),
                             !.Cypress.stopped = TRUE], k, ack)

\* The .then callback of _reRun, for the k-th rerun.
reRunThen(R, k) ==
  LET R1 == [R EXCEPT !.Cypress.listeners = FALSE]
      R2 == emit(R1, "Cypress", "removeAllListeners", k)
      R3 == emit(R2, "localBus", "restart", k)
  IN [R3 EXCEPT !.reruns[k] = "done"]

\* setup(config): a driver is created and given the manager's listeners.
Setup ==
  /\ Cypress.instance < MaxSetups
  /\ Cypress' = [instance |-> Cypress.instance + 1, listeners |-> TRUE,
                 stopped |-> FALSE]
  /\ UNCHANGED <<reporterBus, emitted, reruns, screenshots>>
  /\ UNCHANGED <<InExchanges, preRequests, Session, Derivation, SourceMaps>>

\* rerun(), called for 'runner:restart' and the like.
Rerun ==
  /\ Len(reruns) < MaxReruns
  /\ \E ack \in BOOLEAN : CommitRunner(reRun(CurRunner, ack))
  /\ UNCHANGED <<InExchanges, preRequests, Session, Derivation, SourceMaps>>

\* 'watched:file:changed' on the socket has two listeners, and each calls
\* rerun().
WatchedFileChanged ==
  /\ Len(reruns) + 1 < MaxReruns
  /\ \E ack1, ack2 \in BOOLEAN :
       CommitRunner(reRun(reRun(CurRunner, ack1), ack2))
  /\ UNCHANGED <<InExchanges, preRequests, Session, Derivation, SourceMaps>>

\* The reporter emits 'reporter:restarted' later, or on its own.
ReporterRestarted ==
  /\ Len(SelectSeq(emitted, LAMBDA e : e.event = "reporter:restarted"))
       < MaxRestarted
  /\ CommitRunner(reporterRestarted(CurRunner))
  /\ UNCHANGED <<InExchanges, preRequests, Session, Derivation, SourceMaps>>

\* The job of the .then callback of the k-th rerun, its promise resolved.
RerunThen(k) ==
  /\ k \in DOMAIN reruns
  /\ reruns[k] = "resolved"
  /\ CommitRunner(reRunThen(CurRunner, k))
  /\ UNCHANGED <<InExchanges, preRequests, Session, Derivation, SourceMaps>>

\* Reruns are requested while drivers are set up and the reporter
\* acknowledges.
NextRerun ==
  \/ Setup
  \/ Rerun
  \/ WatchedFileChanged
  \/ ReporterRestarted
  \/ \E k \in 1..MaxReruns : RerunThen(k)

\* The .then callback of a resolved promise is run: a job that is queued is
\* executed.
SpecRerun ==
  Init /\ [][NextRerun]_vars /\ \A k \in 1..MaxReruns : WF_vars(RerunThen(k))

\* Who emits 'before:screenshot' to the manager, and what the completion
\* callback cb given with it does: the driver's own callback, or a
\* 'before:screenshot:end' message to the spec bridge.
ScreenshotSources == {"Cypress", "primaryOriginCommunicator"}
Completion(from) ==
  IF from = "Cypress" THEN "cb" ELSE "before:screenshot:end"

\* beforeThenCb, for the s-th event
beforeThenCb(R, s) ==
  LET R1 == emit(R, "localBus", "before:screenshot", s)
  IN emit(R1, R.screenshots[s].from, Completion(R.screenshots[s].from), s)

\* The reporter calls the callback it was given with 'test:set:state'.
callback(R, s) ==
  LET R1 == [R EXCEPT !.reporterBus.callbacks = @ \ {s}]
  IN beforeThenCb(emit(R1, "reporter", "callback", s), s)

\* reporterBus.emit('test:set:state', ..., wait ? beforeThenCb : undefined);
\* now: the reporter's listener calls the callback before it returns.
testSetState(R, s, wait, now) ==
  LET R1 == emit(R, "reporterBus", "test:set:state", s)
      R2 == [R1 EXCEPT !.reporterBus.callbacks = @ \cup {s}]
  IN IF ~wait THEN R1 ELSE IF now THEN callback(R2, s) ELSE R2

\* handleBeforeScreenshot(config, cb), for the s-th event
handleBeforeScreenshotNoWait(R, s, now) ==
  LET config == R.screenshots[s]
  IN IF config.NO_COMMAND_LOG THEN beforeThenCb(R, s)
     ELSE LET wait == ~config.appOnly /\ config.waitForCommandSynchronization
              R1 == IF ~config.appOnly THEN testSetState(R, s, wait, now)
                    ELSE R
          IN beforeThenCb(R1, s)
handleBeforeScreenshot(R, s, now) ==
  LET config == R.screenshots[s]
  IN IF config.NO_COMMAND_LOG THEN beforeThenCb(R, s)
     ELSE LET wait == ~config.appOnly /\ config.waitForCommandSynchronization
              R1 == IF ~config.appOnly THEN testSetState(R, s, wait, now)
                    ELSE R
          IN IF ~wait THEN beforeThenCb(R1, s) ELSE R1

\* The driver, or its primaryOriginCommunicator, emits 'before:screenshot'
\* and the listener the manager registered handles it.
BeforeScreenshot(from, config, now) ==
  /\ Cypress.instance # 0 /\ Cypress.listeners
  /\ Len(screenshots) < MaxScreenshots
  /\ LET R == [CurRunner EXCEPT
                 !.screenshots = Append(@, [from |-> from] @@ config)]
     IN CommitRunner(handleBeforeScreenshot(R, Len(R.screenshots), now))
  /\ UNCHANGED <<InExchanges, preRequests, Session, Derivation, SourceMaps>>

\* The reporter calls, later, the callback it was given for the s-th event.
ReporterCallback(s) ==
  /\ s \in reporterBus.callbacks
  /\ CommitRunner(callback(CurRunner, s))
  /\ UNCHANGED <<InExchanges, preRequests, Session, Derivation, SourceMaps>>

ScreenshotConfigs ==
  [NO_COMMAND_LOG : BOOLEAN, appOnly : BOOLEAN,
   waitForCommandSynchronization : BOOLEAN]

\* Screenshots are taken with a driver set up.
NextScreenshot ==
  \/ Setup
  \/ \E from \in ScreenshotSources : \E config \in ScreenshotConfigs :
       \E now \in BOOLEAN : BeforeScreenshot(from, config, now)
  \/ \E s \in 1..MaxScreenshots : ReporterCallback(s)

SpecScreenshot == Init /\ [][NextScreenshot]_vars

\* The request identifiers explored: the strings of up to MaxIdLen pieces.
Ids == UNION {[1..n -> Pieces] : n \in 0..MaxIdLen}

InitId ==
  /\ Constructed
  /\ rid \in Ids
  /\ chain = <<rid>>
  /\ NoSourceMapRequests
  /\ Loaded

\* The identifier derived last is derived from again, as the hook of handle
\* does for the retry of a retry.
Derive ==
  /\ Len(chain) <= MaxChain
  /\ rid' = getUniqueRequestId(rid)
  /\ chain' = Append(chain, rid')
  /\ UNCHANGED <<stacks, ctx, inv, stack, invoked, order, skipped, hook,
                 errRun, extra, writes, preRequests, Orchestrator, Session,
                 SourceMaps, Runner>>

NextId == Derive

SpecId == InitId /\ [][NextId]_vars

(***************************************************************************)
(* The claims.                                                             *)
(***************************************************************************)

InFlight(x) == hpc[x] # "idle"
Remaining(x, s) == stacks[ctx[x].middleware][s]
Step(x, s, n) == [x |-> x, type |-> s, name |-> n]
HandleCalls == {"next", "end", "onResponse", "onError"}
Failures == {"onError", "throw"}

\* The handle call that step i makes in this transition, if it makes one.
Calls(i, what) ==
  /\ i \in DOMAIN inv
  /\ Len(inv'[i].hist) = Len(inv[i].hist) + 1
  /\ inv'[i].hist[Len(inv'[i].hist)] \in what

\* C1: in every exchange and every stage each named step is invoked at most
\* once, whatever handle calls the steps make: several from one invocation,
\* advance after terminate, calls made after an asynchronous delay.
C1_AtMostOncePerStage == \A i \in StepInvs : Invoked(i) <= 1

\* A step has called advance twice, the second time after a delay, and the
\* three request steps have each run once.
C1_Witness ==
  /\ Hist(Step(1, IncomingRequest, "A")) = <<"next", "next">>
  /\ \A n \in {"A", "B", "C"} : Invoked(Step(1, IncomingRequest, n)) = 1

ResponseInvoked(x) ==
  \E i \in StepInvs : i.x = x /\ i.type = IncomingResponse /\ Invoked(i) > 0
Decided(x) == hpc[x] \in {"response", "unfulfilled"}

\* C2 as stated: once handle has gone on after the request stage, a
\* response step is invoked if and only if a step of the request stage had
\* called deliverResponse.
C2_Original ==
  \A x \in Exchanges :
    Decided(x) => (ResponseInvoked(x) <=> IncomingRequest \in seenAtThen[x])

\* C2 as amended: once handle has gone on after the request stage, a
\* response step is invoked if and only if some step of the exchange, of the
\* request stage or of an error stage run for it, had called deliverResponse
\* by then.
C2_ResponseIffDelivered ==
  \A x \in Exchanges :
    Decided(x) => (ResponseInvoked(x) <=> seenAtThen[x] # {})

\* The response stage runs on a response that only an error step delivered.
C2_Witness ==
  /\ seenAtThen[1] = {Error}
  /\ ResponseInvoked(1)

StagePromise(i) == IF i.type = IncomingRequest THEN reqP[i.x] ELSE resP[i.x]
FailuresOf(i) == Len(SelectSeq(Hist(i), LAMBDA c : c \in Failures))

RECURSIVE FailuresIn(_)
FailuresIn(I) ==
  IF I = {} THEN 0
  ELSE LET i == CHOOSE j \in I : TRUE IN FailuresOf(i) + FailuresIn(I \ {i})

\* C3: a request or response step that calls fail (or throws) has the
\* failure hook invoked once for that failure, and before any error step
\* runs; an Error run is started for it on the same context; and the
\* promise of the failing stage is resolved only once that Error run is.
C3_FailRunsErrorStageFirst ==
  /\ \A x \in Exchanges :
       /\ hook[x] = FailuresIn({i \in StepInvs : i.x = x /\ i.type # Error})
       /\ \A i \in StepInvs :
            (i.x = x /\ i.type = Error /\ Invoked(i) > 0) => hook[x] > 0
  /\ \A i \in StepInvs :
       i.type # Error =>
         /\ Len(ErrRuns(i)) = FailuresOf(i)
         /\ \A k \in 1..Len(ErrRuns(i)) :
              PState(StagePromise(i)) = "resolved"
                => PState(ErrRuns(i)[k]) = "resolved"

\* C4: once every step that was invoked has called advance, terminate,
\* deliverResponse or fail, or has thrown, and the job queue is empty, the
\* promise handle returned is resolved: a failure inside the error stage is
\* swallowed and the stages and handle still resolve.
C4_HandleResolves ==
  \A x \in Exchanges :
    ( /\ InFlight(x)
      /\ stack = <<>>
      /\ \A i \in DOMAIN inv : i.x = x => inv[i].hist # <<>>
      /\ ~(hpc[x] = "request" /\ PState(reqP[x]) = "resolved") )
    => HandleState(x) = "resolved"

\* C5: after the first handle call of a step invocation, a later call of
\* advance, terminate, deliverResponse or fail by the same invocation has no
\* effect: no step is started, the failure hook is not invoked, no Error run
\* is started, and the context and the remaining steps stay as they are.
C5_LaterCallsIgnored ==
  [][\A i \in StepInvs :
       (Hist(i) # <<>> /\ Calls(i, HandleCalls))
         => /\ invoked' = invoked
            /\ hook' = hook
            /\ errRun' = errRun
            /\ ctx' = ctx
            /\ stacks' = stacks]_vars

\* C6: a step that fails (calls fail or throws) while the stage being run
\* is the error stage starts no Error run, does not invoke the failure hook
\* and leaves the captured error as it is; failures inside the error stage
\* cause no entry into the error stage.
C6_NoErrorStageReentry ==
  /\ [](\A i \in StepInvs : i.type = Error => ErrRuns(i) = <<>>)
  /\ [][\A i \in StepInvs :
          (i.type = Error /\ Calls(i, Failures))
            => /\ hook' = hook
               /\ errRun' = errRun
               /\ invoked' = invoked
               /\ ctx'[i.x].error = ctx[i.x].error]_vars

\* An error step has failed during the Error run of a failed request step.
C6_Witness ==
  /\ Hist(Step(1, Error, "E")) = <<"onError">>
  /\ ErrRuns(Step(1, IncomingRequest, "A")) = <<Step(1, Error, "E")>>
  /\ hook[1] = 1
  /\ ctx[1].error = Code(Step(1, IncomingRequest, "A"))

\* C7: the promise handle returned is never rejected because a step of the
\* request, response or error stage threw or called fail.
C7_HandleNeverRejects ==
  /\ \A x \in Exchanges : HandleState(x) # "rejected"
  /\ \A i \in DOMAIN inv : PState(i) # "rejected"

\* Steps of the request, the error and the response stage have thrown or
\* failed, and the promise of handle is resolved.
C7_Witness ==
  /\ "throw" \in Range(Hist(Step(1, IncomingRequest, "A")))
  /\ "throw" \in Range(Hist(Step(1, IncomingResponse, "R")))
  /\ HandleState(1) = "resolved"

\* q is p with some elements left out.
RECURSIVE IsSubSeq(_, _)
IsSubSeq(q, p) ==
  IF q = <<>> THEN TRUE
  ELSE IF p = <<>> THEN FALSE
  ELSE IF Head(q) = Head(p) THEN IsSubSeq(Tail(q), Tail(p))
  ELSE IsSubSeq(q, Tail(p))

\* C8: in one exchange and one stage the steps are invoked in registry
\* insertion order and one at a time: a step is invoked only after the step
\* before it has called a control handle, so no two steps of a stage are
\* awaiting a handle call together.
C8_InOrderOneAtATime ==
  \A x \in Exchanges : \A s \in HttpStages :
    /\ IsSubSeq(order[x][s], defaultMiddleware[s])
    /\ \A k \in 1..(Len(order[x][s]) - 1) :
         Hist(Step(x, s, order[x][s][k])) # <<>>

\* C9: a step skipped for the current stage before it was selected is never
\* invoked for that stage in that exchange, the other steps are still
\* selected in their registry order, and the remaining steps of the other
\* stages are as they were: what has been invoked followed by what remains
\* is the registry without the skipped names.
C9_SkipRemovesOnlyNamed ==
  \A x \in Exchanges : \A s \in HttpStages :
    InFlight(x) =>
      order[x][s] \o Remaining(x, s)
        = SelectSeq(defaultMiddleware[s], LAMBDA n : n \notin skipped[x][s])

\* Step A has skipped B and advanced, and C has run next; the steps of the
\* other stages remain.
C9_Witness ==
  /\ skipped[1][IncomingRequest] = {"B"}
  /\ order[1][IncomingRequest] = <<"A", "C">>
  /\ Hist(Step(1, IncomingRequest, "A")) = <<"next">>
  /\ Remaining(1, IncomingResponse) = <<"R">>
  /\ Remaining(1, Error) = <<"E">>

\* Exchange x consumes or skips a step in this transition.
Consumes(x) == order'[x] # order[x] \/ skipped'[x] # skipped[x]

\* C10: with several exchanges of one Http instance in flight, a step
\* consumed or skipped in one exchange leaves the remaining steps of every
\* other exchange as they were, and the registry of the session
\* (this.middleware) stays what it was at construction.
C10_ExchangesIsolated ==
  /\ [](stacks[0] = defaultMiddleware)
  /\ [][\A x \in Exchanges : \A y \in Exchanges :
          (x # y /\ Consumes(x))
            => stacks'[ctx'[y].middleware] = stacks[ctx[y].middleware]]_vars

\* Two exchanges are in flight: the first has consumed A and skipped B, the
\* second has its steps B and C left, and the session registry is whole.
C10_Witness ==
  /\ hpc[1] = "request" /\ hpc[2] = "request"
  /\ "B" \in skipped[1][IncomingRequest]
  /\ Remaining(1, IncomingRequest) = <<"C">>
  /\ Remaining(2, IncomingRequest) = <<"B", "C">>
  /\ stacks[0] = defaultMiddleware

\* The retry identifier the claims speak of: a plain identifier gets
\* "-retry-1" appended, one that ends in "-retry-<n>" has n replaced by n+1.
IsRetryForm(id, base, ds) ==
  /\ ds # <<>>
  /\ \A k \in 1..Len(ds) : IsDigit(ds[k])
  /\ id = base \o <<Retry>> \o ds
Splits(id) ==
  {<<SubSeq(id, 1, p - 1), SubSeq(id, p + 1, Len(id))>> : p \in 1..Len(id)}
EndsInRetry(id) == \E sp \in Splits(id) : IsRetryForm(id, sp[1], sp[2])
IsRetryNumber(id, base, n) ==
  \E sp \in Splits(id) :
    /\ IsRetryForm(id, base, sp[2])
    /\ Number(sp[2]) = n
    /\ Len(sp[2]) > 1 => sp[2][1] # "0"
IsRetryIdOf(new, id) ==
  IF EndsInRetry(id)
  THEN \E sp \in Splits(id) :
         /\ IsRetryForm(id, sp[1], sp[2])
         /\ IsRetryNumber(new, sp[1], Number(sp[2]) + 1)
  ELSE new = id \o <<Retry, "1">>

\* C11: when a step of the request or the response stage fails and the
\* request carries a pre-request, exactly one pre-request more is pending:
\* its identifier is the retry identifier of the original's and its other
\* fields are the original's; the pre-requests pending before and the
\* request's own are as they were.  When the request carries none, the
\* pending pre-requests stay as they are.
C11_FailureRegistersRetry ==
  [][\A i \in StepInvs :
       (i.type # Error /\ Calls(i, Failures))
         => LET original == req[i.x].browserPreRequest
            IN /\ req' = req
               /\ IF original = NoPreRequest
                  THEN preRequests' = preRequests
                  ELSE /\ Len(preRequests') = Len(preRequests) + 1
                       /\ SubSeq(preRequests', 1, Len(preRequests)) = preRequests
                       /\ LET new == preRequests'[Len(preRequests')]
                          IN /\ IsRetryIdOf(new.requestId, original.requestId)
                             /\ new.method = original.method
                             /\ new.url = original.url]_vars

\* The pre-request of the request was registered, the request's first step
\* failed, and the correlator holds the original and its retry.
C11_Witness ==
  LET original == [requestId |-> <<"a", Retry, "9">>, method |-> "GET", url |-> "/a"]
  IN /\ req[1].browserPreRequest = original
     /\ Failures \cap Range(Hist(Step(1, IncomingRequest, "A"))) # {}
     /\ preRequests =
          <<original, [original EXCEPT !.requestId = <<"a", Retry, "1", "0">>]>>

\* C12: each identifier of a chain of derivations is the retry identifier of
\* the one before it: "-retry-1" appended to an identifier that does not
\* end in "-retry-<n>", and n replaced by n+1 in one that does; so the k-th
\* derivation from a plain identifier is "<id>-retry-k"; and no identifier
\* of the chain occurs twice in it.
C12_RetryIdDerivation ==
  /\ rid = chain[Len(chain)]
  /\ \A k \in 1..(Len(chain) - 1) : IsRetryIdOf(chain[k + 1], chain[k])
  /\ ~EndsInRetry(chain[1]) =>
       \A k \in 1..(Len(chain) - 1) : IsRetryNumber(chain[k + 1], chain[1], k)
  /\ \A j \in 1..Len(chain) : \A k \in 1..Len(chain) :
       j # k => chain[j] # chain[k]

\* "a-retry-9" has been derived from twice: "a-retry-10", "a-retry-11".
C12_Witness ==
  chain = << <<"a", Retry, "9">>, <<"a", Retry, "1", "0">>,
             <<"a", Retry, "1", "1">> >>

\* C13: when a step calls deliverResponse(resp, stream) as its first handle
\* call, in any stage and whatever response the context held, the context
\* holds resp and stream once the call has resolved the step's promise, and
\* the call invokes no step.
C13_DeliverResponseCaptured ==
  [][\A i \in StepInvs :
       (Hist(i) = <<>> /\ Calls(i, {"onResponse"}))
         => /\ inv'[i].res = Resolved
            /\ ctx'[i.x].incomingRes = Code(i)
            /\ ctx'[i.x].incomingResStream = StreamOf(Code(i))
            /\ invoked' = invoked]_vars

\* Step i has assigned its own value to the field its frame defines.
Wrote(i) == i \in DOMAIN inv /\ inv[i].frame.data = Code(i)

DeclaredReadOnly ==
  Handles \cup
  {"config", "buffers", "getCurrentBrowser", "getFileServerToken",
   "getPreviousAUTRequestUrl", "setPreviousAUTRequestUrl",
   "getRenderedHTMLOrigins", "getPreRequest", "deferSourceMapRewrite"}

\* C15: a handle call of a step leaves the context's value of every handle
\* and of every field declared read-only as it was, whatever the step has
\* assigned to them in its frame.
C15_ReadOnlyNotMerged ==
  [][\A i \in StepInvs :
       Calls(i, HandleCalls)
         => \A k \in DeclaredReadOnly :
              ctx'[i.x].props[k] = ctx[i.x].props[k]]_vars

\* C16: in every exchange a response step is invoked only when the promise
\* of the request stage is resolved, and once a response step has been
\* invoked no request step is invoked.
C16_RequestPrecedesResponse ==
  /\ [](\A x \in Exchanges :
          ResponseInvoked(x) => PState(reqP[x]) = "resolved")
  /\ [][\A x \in Exchanges :
          ResponseInvoked(x)
            => order'[x][IncomingRequest] = order[x][IncomingRequest]]_vars

\* A step of stage s has failed in exchange x.
FailedIn(x, s) ==
  \E i \in DOMAIN inv :
    i.x = x /\ i.type = s /\ Failures \cap Range(inv[i].hist) # {}

\* C17: once a request or response step has failed, no further step of its
\* stage is invoked in the exchange, and the promise of the stage is
\* resolved when the Error runs started for its failures are and the
\* running job is over.
C17_FailedStageNotResumed ==
  /\ [](\A i \in StepInvs :
          (i.type # Error /\ ErrRuns(i) # <<>> /\ stack = <<>>
             /\ \A k \in 1..Len(ErrRuns(i)) :
                  PState(ErrRuns(i)[k]) = "resolved")
            => PState(StagePromise(i)) = "resolved")
  /\ [][\A x \in Exchanges : \A s \in {IncomingRequest, IncomingResponse} :
          FailedIn(x, s) => order'[x][s] = order[x][s]]_vars

\* A step of stage s has called terminate as its first handle call.
TerminatedIn(x, s) ==
  \E i \in DOMAIN inv :
    i.x = x /\ i.type = s /\ inv[i].hist # <<>> /\ inv[i].hist[1] = "end"

\* C18: when a step has called terminate as its first handle call, its
\* promise is resolved and, once the running job is over, so is the
\* promise of its stage; no further step of the stage is invoked in the
\* exchange, and the steps that remain stay in the remaining steps.
C18_TerminateEndsStage ==
  /\ [](\A i \in DOMAIN inv :
          (inv[i].hist # <<>> /\ inv[i].hist[1] = "end")
            => /\ PState(i) = "resolved"
               /\ (stack = <<>> /\ i.type # Error)
                    => PState(StagePromise(i)) = "resolved")
  /\ [][\A x \in Exchanges : \A s \in HttpStages :
          TerminatedIn(x, s)
            => /\ order'[x][s] = order[x][s]
               /\ Remaining(x, s)' = Remaining(x, s)]_vars

\* The closures without what tells a throw from a call of fail: the record
\* of the calls made and the position of the step's function.
Outcome(closures) ==
  [j \in DOMAIN closures |-> [closures[j] EXCEPT !.hist = <<>>, !.st = "none"]]

\* C19: a step that throws without having called a handle leaves the
\* context, the remaining steps, the failure hook's effects, the Error run
\* started and every promise as its calling fail(e) would have left them,
\* in the request, the response and the error stage.
C19_ThrowIsFail ==
  [][\A i \in StepInvs :
       (Hist(i) = <<>> /\ Calls(i, {"throw"}))
         => LET T == onError(Called(Cur, i, "onError"), i)
            IN /\ ctx' = T.ctx
               /\ stacks' = T.stacks
               /\ hook' = T.hook
               /\ preRequests' = T.preRequests
               /\ errRun' = T.errRun
               /\ invoked' = T.invoked
               /\ order' = T.order
               /\ stack' = T.stack
               /\ Outcome(inv') = Outcome(T.inv)]_vars

\* A request step has thrown, the error step invoked for it has thrown too,
\* and the retry of the request's pre-request has been registered.
C19_Witness ==
  /\ Hist(Step(1, IncomingRequest, "A")) = <<"throw">>
  /\ Hist(Step(1, Error, "E")) = <<"throw">>
  /\ ctx[1].error = Code(Step(1, IncomingRequest, "A"))
  /\ hook[1] = 1
  /\ Len(preRequests) = 1

\* C20: a call of reset leaves the buffer store empty and the previous URL
\* undefined, and leaves as they were the pending pre-requests, the
\* rendered origins, the registry of the session, and the contexts and the
\* remaining steps of the exchanges in flight.
C20_ResetClearsOnlyBuffersAndUrl ==
  [][resets' # resets
       => /\ buffers' = {}
          /\ previousAUTRequestUrl' = undefined
          /\ preRequests' = preRequests
          /\ renderedHTMLOrigins' = renderedHTMLOrigins
          /\ stacks' = stacks
          /\ ctx' = ctx
          /\ inv' = inv
          /\ req' = req]_vars

\* reset has been called on a session that held a buffer and a previous URL:
\* both are gone, and the pending pre-request, the rendered origin and the
\* exchange in flight, with step A consumed, are still there.
C20_Witness ==
  /\ resets = 1
  /\ buffers = {}
  /\ previousAUTRequestUrl = undefined
  /\ Len(preRequests) = 1
  /\ renderedHTMLOrigins = Origins
  /\ hpc[1] = "request"
  /\ Remaining(1, IncomingRequest) = <<"B", "C">>

\* C21: when a request or response step calls fail(e) as its first handle
\* call, the frames of the error steps invoked for it hold e as the
\* captured error, and the context holds e when the call is over and when
\* the step's _end, which settles the promise of the failing stage, has run,
\* whatever error the context held before.
C21_FailCapturesError ==
  [][\A i \in StepInvs :
       /\ (i.type # Error /\ Hist(i) = <<>> /\ Calls(i, {"onError"}))
            => /\ ctx'[i.x].error = Code(i)
               /\ \A j \in DOMAIN inv' \ DOMAIN inv :
                    inv'[j].frame.error = Code(i)
       /\ (i.type # Error /\ i \in DOMAIN inv' /\ inv'[i].ended
             /\ ~Closure(i).ended /\ inv'[i].hist[1] = "onError")
            => ctx'[i.x].error = Code(i)]_vars

\* C22: in every transition of an exchange in flight (a step selected, a
\* skip, a frame merged back by next, end, onResponse or onError) the
\* remaining steps of each stage are afterwards a subsequence of what they
\* were before, so a name once removed is never regained.
C22_RemainingShrinks ==
  [][\A x \in Exchanges : \A s \in HttpStages :
       InFlight(x) => IsSubSeq(Remaining(x, s)', Remaining(x, s))]_vars

\* A has advanced, B has skipped C and terminated, and both frames have
\* been merged back: no request step remains.
C22_Witness ==
  /\ order[1][IncomingRequest] = <<"A", "B">>
  /\ skipped[1][IncomingRequest] = {"C"}
  /\ Remaining(1, IncomingRequest) = <<>>
  /\ \A n \in {"A", "B"} : Closure(Step(1, IncomingRequest, n)).ended
  /\ stack = <<>>

\* C23: a source-map request whose resolve settled with no source map or
\* with a rejection has answered with status 500 and one body holding an
\* error and no source map; one whose resolve settled with a source map has
\* sent that map and nothing else; a request not yet resumed has sent
\* nothing; and no step of a source-map request changes an exchange's
\* context, the remaining steps, or the pending pre-requests.
C23_SourceMapFailureIsDistinct ==
  /\ [](\A q \in SourceMapRequests :
          LET r == sourceMapRequests[q] IN
            IF r.pc # "done" THEN r.res = NoResponse
            ELSE IF r.settled.k = "fulfilled" /\ r.settled.v # null
              THEN /\ r.settled.v \in SourceMapsOf(r.id)
                   /\ r.res.sent = <<MapBody(r.settled.v)>>
              ELSE /\ r.res.statusCode = 500
                   /\ Len(r.res.sent) = 1
                   /\ r.res.sent[1].err # undefined
                   /\ r.res.sent[1].sm = undefined)
  /\ [][sourceMapRequests' # sourceMapRequests
          => UNCHANGED <<ctx, stacks, preRequests>>]_vars

\* While an exchange is past its request stage with a response captured and
\* a pre-request is pending, one source-map request has failed for want of
\* a source map and another has sent the map of its identifier.
C23_Witness ==
  /\ hpc[1] = "response" /\ ctx[1].incomingRes # Absent
  /\ preRequests # <<>>
  /\ sourceMapRequests[1].pc = "done"
  /\ sourceMapRequests[1].settled = Fulfilled(null)
  /\ sourceMapRequests[1].res.sent = <<ErrBody(noSourcemapFound)>>
  /\ sourceMapRequests[2].pc = "done"
  /\ sourceMapRequests[2].res = json(NoResponse, MapBody("map of id2"))

\* The steps of stage s of exchange x that have assigned the field, by
\* their place in the order of execution.
Writers(x, s) ==
  {k \in 1..Len(order[x][s]) : Wrote(Step(x, s, order[x][s][k]))}
Last(K) == CHOOSE k \in K : \A l \in K : l <= k

\* C24: when the promise of a request or response stage is resolved (and
\* the next stage has not begun), the field that steps of the stage have
\* assigned holds in the context the value of the last of them in execution
\* order, whether the steps called their handles at once or later: the
\* frame of an earlier step does not overwrite what a later step merged
\* back.  (Exchanges whose error steps assigned the field are left out.)
C24_LastWriteWins ==
  \A x \in Exchanges : \A s \in {IncomingRequest, IncomingResponse} :
    ( /\ hpc[x] = (IF s = IncomingRequest THEN "request" ELSE "response")
      /\ PState(StagePromise(Step(x, s, "none"))) = "resolved"
      /\ Writers(x, s) # {}
      /\ \A n \in Range(defaultMiddleware[Error]) : ~Wrote(Step(x, Error, n)) )
    => ctx[x].data = Code(Step(x, s, order[x][s][Last(Writers(x, s))]))

\* C25: when a request or response step fails in an exchange whose error
\* steps have all been invoked for an earlier failure, the hook is called
\* once more, a request that carries a pre-request has the retry pre-request
\* registered that the earlier failure registered, no step is invoked, and
\* the Error run started for the failure is resolved from the start.
C25_ErrorStepsConsumedPerExchange ==
  [][\A i \in StepInvs :
       ( /\ i.type # Error /\ Calls(i, Failures)
         /\ hook[i.x] > 0
         /\ Remaining(i.x, Error) = <<>>
         /\ \A n \in Range(defaultMiddleware[Error]) :
              Invoked(Step(i.x, Error, n)) > 0 )
       => /\ hook'[i.x] = hook[i.x] + 1
          /\ invoked' = invoked
          /\ Remaining(i.x, Error)' = <<>>
          /\ errRun'[i][Len(errRun'[i])] = NoInv
          /\ req[i.x].browserPreRequest # NoPreRequest
               => /\ Len(preRequests') = Len(preRequests) + 1
                  /\ IsRetryIdOf(preRequests'[Len(preRequests')].requestId,
                                 req[i.x].browserPreRequest.requestId)
                  /\ \E k \in 1..Len(preRequests) :
                       preRequests[k] = preRequests'[Len(preRequests')]]_vars

\* The first request step failed, the error step delivered a response, and
\* the response step failed: the hook ran twice and registered the same
\* retry pre-request twice, the error step ran once, and the response stage
\* is resolved.
C25_Witness ==
  LET original == [requestId |-> <<"a">>, method |-> "GET", url |-> "/a"]
      retry == [original EXCEPT !.requestId = <<"a", Retry, "1">>]
  IN /\ req[1].browserPreRequest = original
     /\ Hist(Step(1, IncomingRequest, "A")) = <<"onError">>
     /\ Hist(Step(1, IncomingResponse, "R")) = <<"onError">>
     /\ hook[1] = 2
     /\ preRequests = <<retry, retry>>
     /\ Invoked(Step(1, Error, "E")) = 1
     /\ hpc[1] = "response" /\ PState(resP[1]) = "resolved"

\* Invocation i has called skipMiddleware and no other handle, and has not
\* thrown.
OnlySkipped(i) == i \in DOMAIN inv /\ inv[i].hist = <<>> /\ inv[i].skips > 0

\* C26: while a step invocation has called only skip, its promise is pending
\* and its _end has not run (a skip is not its honored handle call), the
\* promise of its stage is not resolved, and no step of the exchange is
\* invoked.
C26_SkipDoesNotComplete ==
  /\ [](\A i \in StepInvs :
          OnlySkipped(i)
            => /\ inv[i].res = Pending
               /\ ~inv[i].ended
               /\ i.type # Error => PState(StagePromise(i)) # "resolved")
  /\ [][\A i \in StepInvs :
          (OnlySkipped(i) /\ inv'[i].hist = <<>>)
            => \A j \in StepInvs : j.x = i.x => Invoked(j)' = Invoked(j)]_vars

\* Where e occurs in the history of emissions.
Pos(e) == {p \in 1..Len(emitted) : emitted[p] = e}
Restarted == Emitted("reporterBus", "reporter:restarted", 0)
RestartTestRun(k) == Emitted("reporterBus", "reporter:restart:test:run", k)
Restart(k) == Emitted("localBus", "restart", k)
\* The reporter has emitted 'reporter:restarted' since the k-th rerun emitted
\* 'reporter:restart:test:run', before position p of the history.
Acknowledged(k, p) ==
  \E q \in Pos(RestartTestRun(k)) : \E a \in Pos(Restarted) : q < a /\ a < p

\* C27: a rerun with no driver emits nothing.  A rerun with a driver emits
\* 'reporter:restart:test:run' once, with its one-shot listener for
\* 'reporter:restarted' registered, so that it is resolved as soon as the
\* reporter has emitted 'reporter:restarted' after it, also inside that
\* emission; it emits 'restart' on the local bus at most once, exactly once
\* when its .then callback has run, only after such an acknowledgement, and
\* with the driver's listeners removed just before; so do two reruns that
\* wait together.  Once acknowledged, a rerun does emit 'restart'.
RerunEmissions ==
  \A k \in DOMAIN reruns :
    /\ reruns[k] = "returned" => \A p \in DOMAIN emitted : emitted[p].of # k
    /\ reruns[k] # "returned" => Cardinality(Pos(RestartTestRun(k))) = 1
    /\ reruns[k] = "pending" => k \in reporterBus.once
    /\ Acknowledged(k, Len(emitted) + 1) => reruns[k] \in {"resolved", "done"}
    /\ Cardinality(Pos(Restart(k))) = (IF reruns[k] = "done" THEN 1 ELSE 0)
    /\ \A p \in Pos(Restart(k)) :
         /\ Acknowledged(k, p)
         /\ p > 1 /\ emitted[p - 1] = Emitted("Cypress", "removeAllListeners", k)
C27_RestartAfterAcknowledgement ==
  /\ []RerunEmissions
  /\ \A k \in 1..MaxReruns :
       (k \in DOMAIN reruns /\ Acknowledged(k, Len(emitted) + 1))
         ~> (Pos(Restart(k)) # {})

\* A file change requested two reruns with a driver present, the reporter
\* acknowledged once, later, and each rerun has emitted 'restart'; a rerun
\* before the first setup emitted nothing.
C27_Witness ==
  /\ Len(reruns) = 3
  /\ reruns = <<"returned", "done", "done">>
  /\ Cardinality(Pos(Restarted)) = 1
  /\ Cardinality(Pos(Restart(2))) = 1 /\ Cardinality(Pos(Restart(3))) = 1

\* C28: for every 'before:screenshot' event handled, 'before:screenshot' is
\* emitted on the local bus at most once and the completion callback is
\* called right after each emission and not otherwise.  When the command
\* log is enabled, appOnly is false and waitForCommandSynchronization is
\* true, the two happen once the reporter has called the callback given
\* with 'test:set:state', and not before; otherwise they have happened when
\* the handler returns and the reporter is given no callback.
\* 'test:set:state' is emitted, once, exactly when the command log is
\* enabled and appOnly is false.
C28_BeforeScreenshotOnce ==
  \A s \in DOMAIN screenshots :
    LET config == screenshots[s]
        before == Pos(Emitted("localBus", "before:screenshot", s))
        completed == Pos(Emitted(config.from, Completion(config.from), s))
        called == Pos(Emitted("reporter", "callback", s))
        setState == Pos(Emitted("reporterBus", "test:set:state", s))
        logged == ~config.NO_COMMAND_LOG
        waits == logged /\ ~config.appOnly
                   /\ config.waitForCommandSynchronization
    IN /\ Cardinality(before) <= 1
       /\ completed = {p + 1 : p \in before}
       /\ IF waits
          THEN /\ before = {q + 1 : q \in called}
               /\ (called = {}) = (s \in reporterBus.callbacks)
          ELSE /\ Cardinality(before) = 1
               /\ called = {} /\ s \notin reporterBus.callbacks
       /\ Cardinality(setState) = (IF logged /\ ~config.appOnly THEN 1 ELSE 0)
       /\ \A p \in setState : \A q \in before : p < q

\* Of two events handled, the first waited for the reporter, which called
\* the callback later, and the second, with the command log disabled, was
\* completed at once: each was emitted on the local bus and completed once.
C28_Witness ==
  /\ Len(screenshots) = 2
  /\ ~screenshots[1].NO_COMMAND_LOG /\ ~screenshots[1].appOnly
  /\ screenshots[1].waitForCommandSynchronization
  /\ screenshots[2].NO_COMMAND_LOG
  /\ Pos(Emitted("reporterBus", "test:set:state", 1)) = {1}
  /\ Pos(Emitted("localBus", "before:screenshot", 2)) = {2}
  /\ Pos(Emitted("reporter", "callback", 1)) = {4}
  /\ Pos(Emitted("localBus", "before:screenshot", 1)) = {5}
  /\ Len(emitted) = 6

====
